---------------------------- MODULE Spec2Model ----------------------------
(***************************************************************************)
(* Model of the GOP orchestration of the VSRVC codec:                      *)
(*   loader/model_loader.py  load_model, BaseModel, IFrameModel,           *)
(*                           PFrameModel, PFrameModelWithMotion            *)
(*   models/vsrvc.py         ICDecoder, VCResidualDecoder, encoders        *)
(*                                                                         *)
(*   metrics.py              RateDistortionLoss, CompressionTaskMetrics    *)
(*                                                                         *)
(* Four state machines share the module.  SpecCodec runs the compress and  *)
(* decompress calls of an assembled model, one loop iteration per step.    *)
(* SpecLoad runs load_model, one statement group per step, with its        *)
(* recursion into the keyframe model kept on an explicit call stack.       *)
(* SpecUpdate runs BaseModel.update calls on the modules of one instance.  *)
(* SpecMetrics hands predictions of the compression task to the loss and   *)
(* the metric.                                                             *)
(***************************************************************************)
EXTENDS Integers, Sequences, FiniteSets, TLC

\* ------------------------------------------------------------------ bounds
MaxFrames == 3
MaxInterval == 3
MaxPixel == 2

\* ------------------------------------------------------- Python values
\* Every Python value is a record of one shape, so that any two of them can
\* be compared: tag is the Python type, val the number a tensor / payload /
\* int stands for, items the elements of a tuple or list.
PyVal(tag, val, items) == [tag |-> tag, val |-> val, items |-> items]
PyNone == PyVal("none", 0, <<>>)
PyInt(n) == PyVal("int", n, <<>>)
PyStr == PyVal("str", 0, <<>>)
PyBytes(n) == PyVal("bytes", n, <<>>)
PyTruncated == PyVal("truncated", 0, <<>>)
PyTuple(s) == PyVal("tuple", 0, s)
PyList(s) == PyVal("list", 0, s)
Tensor(n) == PyVal("tensor", n, <<>>)
Exc(kind) == PyVal(kind, 0, <<>>)

ExcKinds == {"TypeError", "AttributeError", "KeyError", "DecodeError", "RuntimeError",
             "AssertionError", "ValueError"}
IsExc(v) == v.tag \in ExcKinds
IsSeqVal(v) == v.tag \in {"tuple", "list"}

\* x[0]
GetItem0(v) ==
    IF IsSeqVal(v) /\ Len(v.items) >= 1 THEN v.items[1]
    ELSE IF v.tag \in {"bytes", "truncated"} THEN PyVal("element", 0, <<>>)
    ELSE Exc("TypeError")

\* x[1]
GetItem1(v) ==
    IF IsSeqVal(v) /\ Len(v.items) >= 2 THEN v.items[2]
    ELSE IF v.tag \in {"bytes", "truncated"} THEN PyVal("element", 0, <<>>)
    ELSE Exc("TypeError")

\* (head,) + rest : tuple concatenation accepts a tuple only
TupleConcat(head, rest) ==
    IF rest.tag = "tuple" THEN PyTuple(<<head>> \o rest.items)
    ELSE Exc("TypeError")

\* x.append(e) / x.extend([e]) : a method of list only
ListAppend(x, e) ==
    IF x.tag = "list" THEN PyList(Append(x.items, e))
    ELSE Exc("AttributeError")

\* the sentinel ('', '', 0) stored in a keyframe's motion slot
EmptyMotion == PyTuple(<<PyStr, PyStr, PyInt(0)>>)

\* ------------------------------------------- learned transforms (opaque)
\* The networks and the entropy coder are pure maps on tensors; a tensor is
\* the integer it carries.  The coder quantises, so a round trip is lossy.
FeatNet(n) == n + 1
HeadNet(n) == n + 1
SRNet(f, lq) == f + 3 * lq
Quantize(n) == n \div 2
Dequantize(q) == 2 * q
WarpNet(f, m) == f + m

\* HyperpriorCompressAI.compress(x) -> prior_string, hyperprior_string, shape
Compressor_compress(x) ==
    <<PyBytes(Quantize(x.val)), PyBytes(0), PyInt(1)>>

\* HyperpriorCompressAI.decompress(prior_string, hyperprior_string, shape):
\* a decode error unless handed two well-formed payloads and a shape
Compressor_decompress(prior_string, hyperprior_string, shape) ==
    IF prior_string.tag = "bytes" /\ hyperprior_string.tag = "bytes"
       /\ shape.tag = "int" /\ shape.val = 1
    THEN Tensor(Dequantize(prior_string.val))
    ELSE Exc("DecodeError")

\* tensor + tensor
TensorAdd(a, b) ==
    IF IsExc(a) THEN a
    ELSE IF IsExc(b) THEN b
    ELSE IF a.tag = "tensor" /\ b.tag = "tensor" THEN Tensor(a.val + b.val)
    ELSE Exc("TypeError")

\* a network applied to the result of an earlier call
Apply1(v, n) == IF IsExc(v) THEN v ELSE IF v.tag = "tensor" THEN Tensor(n) ELSE Exc("TypeError")

\* ------------------------------------------------------ models/vsrvc.py
\* VSRVCEncoder.forward on a one-frame window [x]
VSRVCEncoder_forward(x) ==
    PyList(<<Tensor(FeatNet(x.val)), PyTuple(<<Tensor(FeatNet(x.val)), x>>)>>)

\* ISRDecoder.forward((features, lqs))
ISRDecoder_forward(rep) ==
    Tensor(SRNet(rep.items[1].val, rep.items[2].val))

\* ICDecoder.compress
ICDecoder_compress(x) == PyTuple(Compressor_compress(x))

\* ICDecoder.decompress(prior_string, hyperprior_string, shape)
ICDecoder_decompress(prior_string, hyperprior_string, shape) ==
    LET reconstructed_features == Compressor_decompress(prior_string, hyperprior_string, shape)
    IN  Apply1(reconstructed_features, HeadNet(reconstructed_features.val))

\* VSRVCResidualEncoder.extract_feats
extract_feats(x) == Apply1(x, FeatNet(x.val))

\* VSRVCResidualEncoder.forward on a window of frames: assert (N == 2)
VSRVCResidualEncoder_forward(x) ==
    IF Len(x) # 2 THEN Exc("AssertionError")
    ELSE PyList(<<PyTuple(<<extract_feats(x[1]), extract_feats(x[2])>>),
                  PyTuple(<<extract_feats(x[1]), extract_feats(x[2]), x[2]>>)>>)

\* VSRResidualDecoder.forward((prev_feat, curr_feat, lqs))
VSRResidualDecoder_forward(rep) ==
    Tensor(SRNet(rep.items[1].val + rep.items[2].val, rep.items[3].val))

\* VCResidualDecoder.compress((prev_feat, curr_feat))
VCResidualDecoder_compress(x) ==
    LET prev_feat == x.items[1]
        curr_feat == x.items[2]
        res == Tensor(curr_feat.val - prev_feat.val)
    IN  PyTuple(Compressor_compress(res))

\* VCResidualDecoder.decompress(prev_feat, prior_string, hyperprior_string, shape)
VCResidualDecoder_decompress(prev_feat, prior_string, hyperprior_string, shape) ==
    LET recon_res == Compressor_decompress(prior_string, hyperprior_string, shape)
        recon_feat == TensorAdd(recon_res, prev_feat)
    IN  Apply1(recon_feat, HeadNet(recon_feat.val))

\* decoders["vc"].decompress(*inp) for the residual decoder: four positionals
VCResidualDecoder_decompress_star(inp) ==
    IF IsExc(inp) THEN inp
    ELSE IF ~IsSeqVal(inp) \/ Len(inp.items) # 4 THEN Exc("TypeError")
    ELSE VCResidualDecoder_decompress(inp.items[1], inp.items[2], inp.items[3], inp.items[4])

\* encoder.compress(inp) of the residual encoder: the coding-time form of
\* forward, features of the two raw frames
ResidualEncoder_compress(inp) == VSRVCResidualEncoder_forward(inp)

\* encoder.compress(inp, prev_recon): the reference features come from the
\* decoder-side reconstruction of the previous frame
ResidualEncoder_compress_adapt(inp, prev_recon) ==
    IF Len(inp) # 2 THEN Exc("AssertionError")
    ELSE PyList(<<PyTuple(<<extract_feats(prev_recon), extract_feats(inp[2])>>),
                  PyTuple(<<extract_feats(prev_recon), extract_feats(inp[2]), inp[2]>>)>>)

\* encoder.decompress(*motion_record) of the motion encoder
MotionEncoder_decompress_star(rec) ==
    IF IsExc(rec) THEN rec
    ELSE IF ~IsSeqVal(rec) \/ Len(rec.items) # 3 THEN Exc("TypeError")
    ELSE Compressor_decompress(rec.items[1], rec.items[2], rec.items[3])

\* encoder.align_features(prev_feat, recon_offsets)
align_features(prev_feat, recon_offsets) ==
    LET s == TensorAdd(prev_feat, recon_offsets)
    IN  Apply1(s, WarpNet(prev_feat.val, recon_offsets.val))

\* encoder.compress(inp) / encoder.compress_with_prev_recon(prev_recon, inp)
\* of the motion encoder: features of the reference aligned by the decoded
\* motion, beside the features of the current frame
MotionEncoder_code(ref, curr) ==
    LET prev_feat == extract_feats(ref)
        curr_feat == extract_feats(curr)
        offsets == Tensor(curr_feat.val - prev_feat.val)
        coded == Compressor_compress(offsets)
        aligned == align_features(prev_feat, Compressor_decompress(coded[1], coded[2], coded[3]))
    IN  PyList(<<PyTuple(<<aligned, curr_feat>>), PyTuple(<<aligned, curr_feat, curr>>)>>)
MotionEncoder_compress(inp) ==
    IF Len(inp) # 2 THEN Exc("AssertionError") ELSE MotionEncoder_code(inp[1], inp[2])
MotionEncoder_compress_with_prev_recon(prev_recon, inp) ==
    IF Len(inp) # 2 THEN Exc("AssertionError") ELSE MotionEncoder_code(prev_recon, inp[2])

\* ------------------------------------------- loader/model_loader.py: codec
Policies == {"IFrame", "PFrame", "PFrameWithMotion"}
TaskLists == {<<"vc">>, <<"vc", "vsr">>}
Range(s) == {s[n] : n \in 1..Len(s)}
IndexOf(s, t) == CHOOSE n \in 1..Len(s) : s[n] = t

\* i % self.keyframe_interval == 0
IsKeyframeMutant(idx, interval) == (idx + 1) % interval = 0
IsKeyframe(idx, interval) == idx % interval = 0

\* video[:, lo:hi] along the frame axis, with Python's slice rules
Slice(v, lo, hi) ==
    LET n == Len(v)
        a == IF lo < 0 THEN (IF n + lo < 0 THEN 0 ELSE n + lo) ELSE (IF lo > n THEN n ELSE lo)
        b == IF hi < 0 THEN (IF n + hi < 0 THEN 0 ELSE n + hi) ELSE (IF hi > n THEN n ELSE hi)
    IN  IF a >= b THEN <<>> ELSE SubSeq(v, a + 1, b)

\* IFrameModel.compress_one: dict task -> record, in task_name order
IFrameModel_compress_one(tasks, inp) ==
    LET s_rep == VSRVCEncoder_forward(inp)
    IN  [t \in Range(tasks) |->
            IF t = "vc" THEN ICDecoder_compress(s_rep.items[IndexOf(tasks, t)])
            ELSE ISRDecoder_forward(s_rep.items[2])]

\* IFrameModel.decompress_one: self.decoders["vc"].decompress(*inputs)
IFrameModel_decompress_one(inputs) ==
    IF IsExc(inputs) THEN inputs
    ELSE IF ~IsSeqVal(inputs) \/ Len(inputs.items) # 3 THEN Exc("TypeError")
    ELSE ICDecoder_decompress(inputs.items[1], inputs.items[2], inputs.items[3])

\* out = {task: [] for task in self.task_name}
EmptyOut(tasks) == [t \in Range(tasks) |-> <<>>]

\* the result of one loop iteration of a compress method: the path taken,
\* the exception raised ("none" when the iteration completed), out, prev_recon
Step(path, e, o, pr) == [path |-> path, err |-> e, out |-> o, prev_recon |-> pr]

\* keyframe: for task, value in results.items(): out[task].append(value)
AppendResults(o, results, pr) ==
    IF \E t \in DOMAIN results : t \notin DOMAIN o THEN Step("key", "KeyError", o, pr)
    ELSE Step("key", "none",
              [t \in DOMAIN o |-> IF t \in DOMAIN results THEN Append(o[t], results[t]) ELSE o[t]],
              pr)

\* predicted frame: the loop over self.task_name, out[task].append(...)
AppendPredicted(o, s_rep, vc_record, pr) ==
    Step("pred", "none",
         [t \in DOMAIN o |->
            IF t = "vc" THEN Append(o[t], vc_record)
            ELSE Append(o[t], VSRResidualDecoder_forward(s_rep.items[2]))],
         pr)

\* IFrameModel.compress, one iteration (frame idx, 0-based)
IFrameModel_compress_body_FirstFrame(o, v, idx, tasks) ==
    AppendResults(o, IFrameModel_compress_one(tasks, Slice(v, 0, 1)[1]), PyNone)
IFrameModel_compress_body(o, v, idx, tasks) ==
    AppendResults(o, IFrameModel_compress_one(tasks, Slice(v, idx, idx + 1)[1]), PyNone)

\* PFrameModel.compress_no_adaptation, one iteration
PFrameModel_compress_no_adaptation_body_KeyframeRef(o, v, idx, interval, itasks) ==
    IF IsKeyframe(idx, interval)
    THEN AppendResults(o, IFrameModel_compress_one(itasks, Slice(v, idx, idx + 1)[1]), PyNone)
    ELSE LET key == idx - (idx % interval)
             s_rep == ResidualEncoder_compress(Slice(v, key, key + 1) \o Slice(v, idx, idx + 1))
         IN  IF IsExc(s_rep) THEN Step("pred", s_rep.tag, o, PyNone)
             ELSE AppendPredicted(o, s_rep, VCResidualDecoder_compress(s_rep.items[1]), PyNone)
PFrameModel_compress_no_adaptation_body(o, v, idx, interval, itasks) ==
    IF IsKeyframe(idx, interval)
    THEN AppendResults(o, IFrameModel_compress_one(itasks, Slice(v, idx, idx + 1)[1]), PyNone)
    ELSE LET s_rep == ResidualEncoder_compress(Slice(v, idx - 1, idx + 1))
         IN  IF IsExc(s_rep) THEN Step("pred", s_rep.tag, o, PyNone)
             ELSE AppendPredicted(o, s_rep, VCResidualDecoder_compress(s_rep.items[1]), PyNone)

\* the vc branch of a predicted frame under adaptation:
\*   results = decoders.compress(ss_rep); inp = (ss_rep[0],) + results[0]
\*   prev_recon = decoders.decompress(*inp); out[task].append(results)
AdaptPredicted(o, s_rep, pr) ==
    IF IsExc(s_rep) THEN Step("pred", s_rep.tag, o, pr)
    ELSE LET ss_rep == s_rep.items[1]
             results == VCResidualDecoder_compress(ss_rep)
             inp == TupleConcat(ss_rep.items[1], GetItem0(results))
             new_recon == VCResidualDecoder_decompress_star(inp)
         IN  IF IsExc(new_recon) THEN Step("pred", new_recon.tag, o, pr)
             ELSE AppendPredicted(o, s_rep, results, new_recon)

\* PFrameModel.compress_with_adaptation, one iteration
PFrameModel_compress_with_adaptation_body(o, pr, v, idx, interval, itasks) ==
    IF IsKeyframe(idx, interval)
    THEN LET results == IFrameModel_compress_one(itasks, Slice(v, idx, idx + 1)[1])
             new_recon == IF "vc" \in DOMAIN results
                          THEN IFrameModel_decompress_one(GetItem0(results["vc"]))
                          ELSE Exc("KeyError")
         IN  IF IsExc(new_recon) THEN Step("key", new_recon.tag, o, pr)
             ELSE AppendResults(o, results, new_recon)
    ELSE AdaptPredicted(o, ResidualEncoder_compress_adapt(Slice(v, idx - 1, idx + 1), pr), pr)

\* PFrameModelWithMotion.compress_no_adaptation, one iteration
PFrameModelWithMotion_compress_no_adaptation_body(o, v, idx, interval, itasks) ==
    IF IsKeyframe(idx, interval)
    THEN LET results == IFrameModel_compress_one(itasks, Slice(v, idx, idx + 1)[1])
             appended == IF "vc" \in DOMAIN results
                         THEN ListAppend(results["vc"], EmptyMotion)
                         ELSE Exc("KeyError")
         IN  IF IsExc(appended) THEN Step("key", appended.tag, o, PyNone)
             ELSE AppendResults(o, [results EXCEPT !["vc"] = appended], PyNone)
    ELSE LET s_rep == MotionEncoder_compress(Slice(v, idx - 1, idx + 1))
         IN  IF IsExc(s_rep) THEN Step("pred", s_rep.tag, o, PyNone)
             ELSE AppendPredicted(o, s_rep, VCResidualDecoder_compress(s_rep.items[1]), PyNone)

\* PFrameModelWithMotion.compress_with_adaptation, one iteration
PFrameModelWithMotion_compress_with_adaptation_body(o, pr, v, idx, interval, itasks) ==
    IF IsKeyframe(idx, interval)
    THEN LET results == IFrameModel_compress_one(itasks, Slice(v, idx, idx + 1)[1])
             new_recon == IF "vc" \in DOMAIN results
                          THEN IFrameModel_decompress_one(GetItem0(results["vc"]))
                          ELSE Exc("KeyError")
             extended == IF IsExc(new_recon) THEN new_recon
                         ELSE ListAppend(results["vc"], EmptyMotion)
         IN  IF IsExc(extended) THEN Step("key", extended.tag, o, pr)
             ELSE AppendResults(o, [results EXCEPT !["vc"] = extended], new_recon)
    ELSE AdaptPredicted(o, MotionEncoder_compress_with_prev_recon(pr, Slice(v, idx - 1, idx + 1)), pr)

\* prev_feat = self.encoder.extract_feats(recon), the last statement but one
\* of a predictive decompress iteration; IFrameModel.decompress has none
CarryFeat_Stale(pol, pf, recon) ==
    IF pol = "IFrame" \/ pf # PyNone THEN pf ELSE extract_feats(recon)
CarryFeat(pol, pf, recon) ==
    IF pol = "IFrame" THEN pf ELSE extract_feats(recon)

\* the result of one loop iteration of a decompress method
Decoded(path, recon) == [path |-> path, recon |-> recon]

\* IFrameModel.decompress, one iteration
IFrameModel_decompress_body(inp) == Decoded("key", IFrameModel_decompress_one(inp))

\* PFrameModel.decompress, one iteration
PFrameModel_decompress_body(inp, pf, idx, interval) ==
    IF IsKeyframe(idx, interval)
    THEN Decoded("key", IFrameModel_decompress_one(GetItem0(inp)))
    ELSE Decoded("pred", VCResidualDecoder_decompress_star(TupleConcat(pf, GetItem0(inp))))

\* PFrameModelWithMotion.decompress, one iteration
PFrameModelWithMotion_decompress_body(inp, pf, idx, interval) ==
    IF IsKeyframe(idx, interval)
    THEN Decoded("key", IFrameModel_decompress_one(GetItem0(inp)))
    ELSE LET recon_offsets == MotionEncoder_decompress_star(GetItem1(inp))
             align_feat == align_features(pf, recon_offsets)
         IN  Decoded("pred",
                     IF IsExc(align_feat) THEN align_feat
                     ELSE VCResidualDecoder_decompress_star(TupleConcat(align_feat, GetItem0(inp))))

\* ------------------------------------- loader/model_loader.py: load_model
MaxPaths == 3
RecursionLimit == MaxPaths + 2

Paths == 1..MaxPaths
ParamKeys == {"w", "b"}
ArchKeys == {"iframe_model_path", "keyframe_interval", "adaptation"}

\* model_type.startswith("PFrame")
StartsWithPFrame(model_type) == model_type \in {"PFrame", "PFrameWithMotion", "PFrameLegacy"}

\* a checkpoint, by the state_dict keys it holds: of the model's own
\* modules, of the embedded keyframe model ("iframe_model." keys), others
Checkpoints ==
    {[own |-> ParamKeys, emb |-> ParamKeys, extra |-> FALSE],
     [own |-> ParamKeys, emb |-> {}, extra |-> FALSE],
     [own |-> {"w"}, emb |-> ParamKeys, extra |-> FALSE],
     [own |-> ParamKeys, emb |-> {}, extra |-> TRUE]}

\* the file model_data["checkpoint"] names, before torch.load reads it
NotLoaded == [own |-> {}, emb |-> {}, extra |-> FALSE]

\* what a model.json can hold; arch_args of a description that is no PFrame
\* type is never read, and is left empty; checkpoint stands for the content
\* of the checkpoint file, which is read at line 276
Descriptions ==
    [model_type : {"PFrame", "PFrameWithMotion", "PFrameLegacy"},
     arch_args : {ArchKeys} \cup {ArchKeys \ {k} : k \in ArchKeys},
     iframe_model_path : Paths,
     checkpoint : {NotLoaded}]
    \cup
    [model_type : {"IFrame", "Other"},
     arch_args : {{}},
     iframe_model_path : {1},
     checkpoint : {NotLoaded}]

Unread == [model_type |-> "unread", arch_args |-> {}, iframe_model_path |-> 1,
           checkpoint |-> NotLoaded]

\* one module tree with entropy models: the parameters, by the checkpoint
\* (path) they were last loaded from, 0 as initialised; and the parameters
\* the calibrated tables were computed from
Uncalibrated == [k \in ParamKeys |-> -1]
NewLayer(model_type) ==
    [mtype |-> model_type, params |-> [k \in ParamKeys |-> 0], calib |-> Uncalibrated]

\* self.named_modules(): the model's own modules and, below them, those of
\* every embedded iframe_model
NamedModules_OwnOnly(model) == {1}
NamedModules(model) == 1..Len(model)

\* BaseModel.update(force=True): every entropy module recomputes its tables
BaseModel_update(model) ==
    [n \in 1..Len(model) |->
        IF n \in NamedModules(model)
        THEN [model[n] EXCEPT !.calib = model[n].params]
        ELSE model[n]]

\* strict = False if model_type.startswith("PFrame") else True
Strict_Always(model_type) == TRUE
Strict(model_type) == ~StartsWithPFrame(model_type)

\* load_state_dict: the keys the instance has and the checkpoint lacks, and
\* the keys the checkpoint has and the instance lacks
MissingKeys(model, ckpt) ==
    ckpt.own # ParamKeys \/ (Len(model) > 1 /\ ckpt.emb # ParamKeys)
UnexpectedKeys(model, ckpt) ==
    ckpt.extra \/ (Len(model) = 1 /\ ckpt.emb # {})

\* load_state_dict: every key present on both sides is copied
LoadStateDict(model, ckpt, src) ==
    [n \in 1..Len(model) |->
        [model[n] EXCEPT !.params =
            [k \in ParamKeys |->
                IF k \in (IF n = 1 THEN ckpt.own ELSE ckpt.emb) THEN src ELSE @[k]]]]

\* the keys load_model checks for a PFrame type before anything else
CheckedKeys_NoAdaptation == {"iframe_model_path", "keyframe_interval"}
CheckedKeys == {"iframe_model_path", "keyframe_interval", "adaptation"}

\* ------------------------------------------------------------ codec state
VARIABLES
    policy,              \* which of the three classes the instance is
    keyframe_interval,   \* self.keyframe_interval
    adaptation,          \* self.adaptation
    task_name,           \* self.task_name
    iframe_task_name,    \* self.iframe_model.task_name
    phase,               \* where the caller is: idle, in a call, after it
    video,               \* compress's argument, one tensor per frame
    i,                   \* the loop index of the running call
    out,                 \* compress's local out
    prev_recon,          \* compress's local prev_recon
    inputs,              \* decompress's argument
    own,                 \* inputs is the "vc" sequence compress just returned
    prev_feat,           \* decompress's local prev_feat
    reconstructed_video, \* decompress's local list
    result,              \* what decompress returned, None before
    err,                 \* the last exception a call raised, "none" if none did
    cpath,               \* history: frame index, path and success of each compress iteration
    dpath,               \* history: frame index, path, success and prev_feat on entry of each
                         \* decompress iteration of the running call
    enc_recon            \* history: prev_recon after each completed compress iteration

codec_vars == <<policy, keyframe_interval, adaptation, task_name, iframe_task_name,
                phase, video, i, out, prev_recon, inputs, own, prev_feat,
                reconstructed_video, result, err, cpath, dpath, enc_recon>>
config_vars == <<policy, keyframe_interval, adaptation, task_name, iframe_task_name>>
compress_vars == <<video, out, prev_recon, cpath, enc_recon>>
decompress_vars == <<inputs, own, prev_feat, reconstructed_video, result, dpath>>

VARIABLES
    files,       \* the model.json behind each path, Unread until opened
    stack,       \* the running load_model calls, the innermost last
    load_phase,  \* "running", "returned" or "raised"
    loaded,      \* the instance load_model returned to the caller
    load_err     \* the exception that ended the call, and where it rose

load_vars == <<files, stack, load_phase, loaded, load_err>>

VARIABLES
    modules,        \* self.named_modules() of one instance, with each module's tables
    update_calls,   \* history: the update calls made on the instance, the last one last
    metric_calls,   \* history: the predictions handed to the loss and the metric
    bpp_record,     \* CompressionTaskMetrics.bpp_record
    loss_record     \* RateDistortionLoss.record

update_vars == <<modules, update_calls>>
metric_vars == <<metric_calls, bpp_record, loss_record>>
aux_vars == <<update_vars, metric_vars>>
vars == <<codec_vars, load_vars, aux_vars>>

NoError == [kind |-> "none", at |-> "none", depth |-> 0, done |-> {}]

\* no update call and no metric call is running or was made
UpdateIdle == modules = <<>> /\ update_calls = <<>>
MetricsIdle == metric_calls = <<>> /\ bpp_record = <<>> /\ loss_record = <<>>

LoadIdle ==
    /\ files = [p \in Paths |-> Unread]
    /\ stack = <<>>
    /\ load_phase = "idle"
    /\ loaded = <<>>
    /\ load_err = NoError

Frames == {Tensor(n) : n \in 0..MaxPixel}
SeqsUpTo(S, n) == UNION {[1..m -> S] : m \in 0..n}
Videos == SeqsUpTo(Frames, MaxFrames)

\* bitstream records a caller may hand to decompress: the flat record the
\* decoders' compress returns, a record holding a content and a motion
\* record, the same with an empty motion slot, and truncated payloads
FlatRecord == PyTuple(<<PyBytes(1), PyBytes(0), PyInt(1)>>)
TruncatedRecord == PyTuple(<<PyTruncated, PyBytes(0), PyInt(1)>>)
GivenRecords == {FlatRecord, TruncatedRecord,
                 PyList(<<FlatRecord, FlatRecord>>),
                 PyList(<<FlatRecord, EmptyMotion>>),
                 PyList(<<TruncatedRecord, FlatRecord>>)}
GivenInputs == SeqsUpTo(GivenRecords, MaxFrames)

InitCodec ==
    /\ policy \in Policies
    /\ keyframe_interval \in 1..MaxInterval
    /\ adaptation \in BOOLEAN
    /\ task_name \in TaskLists
    /\ iframe_task_name \in TaskLists
    /\ phase = "idle"
    /\ video = <<>>
    /\ i = 0
    /\ out = EmptyOut(task_name)
    /\ prev_recon = PyNone
    /\ inputs = <<>>
    /\ own = FALSE
    /\ prev_feat = PyNone
    /\ reconstructed_video = <<>>
    /\ result = PyNone
    /\ err = "none"
    /\ cpath = <<>>
    /\ dpath = <<>>
    /\ enc_recon = <<>>
    /\ LoadIdle
    /\ UpdateIdle
    /\ MetricsIdle

\* model.compress(video): the statements before the loop
CallCompress ==
    /\ phase = "idle"
    /\ \E v \in Videos : video' = v
    /\ phase' = "compress"
    /\ i' = 0
    /\ out' = EmptyOut(task_name)
    /\ prev_recon' = PyNone
    /\ cpath' = <<>>
    /\ enc_recon' = <<>>
    /\ UNCHANGED <<err, config_vars, decompress_vars, load_vars, aux_vars>>

\* the body's outcome written back: the next iteration, or the exception
CompressIteration(step) ==
    /\ cpath' = Append(cpath, [idx |-> i, path |-> step.path, ok |-> step.err = "none"])
    /\ IF step.err = "none"
       THEN /\ out' = step.out
            /\ prev_recon' = step.prev_recon
            /\ enc_recon' = Append(enc_recon, step.prev_recon)
            /\ i' = i + 1
            /\ UNCHANGED <<phase, err>>
       ELSE /\ phase' = "compress_raised"
            /\ err' = step.err
            /\ UNCHANGED <<out, prev_recon, enc_recon, i>>
    /\ UNCHANGED <<video, config_vars, decompress_vars, load_vars, aux_vars>>

InCompressLoop == phase = "compress" /\ i < Len(video)

IFrameModel_compress ==
    /\ InCompressLoop /\ policy = "IFrame"
    /\ CompressIteration(IFrameModel_compress_body(out, video, i, task_name))

PFrameModel_compress_no_adaptation ==
    /\ InCompressLoop /\ policy = "PFrame" /\ ~adaptation
    /\ CompressIteration(PFrameModel_compress_no_adaptation_body(
            out, video, i, keyframe_interval, iframe_task_name))

PFrameModel_compress_with_adaptation ==
    /\ InCompressLoop /\ policy = "PFrame" /\ adaptation
    /\ CompressIteration(PFrameModel_compress_with_adaptation_body(
            out, prev_recon, video, i, keyframe_interval, iframe_task_name))

PFrameModelWithMotion_compress_no_adaptation ==
    /\ InCompressLoop /\ policy = "PFrameWithMotion" /\ ~adaptation
    /\ CompressIteration(PFrameModelWithMotion_compress_no_adaptation_body(
            out, video, i, keyframe_interval, iframe_task_name))

PFrameModelWithMotion_compress_with_adaptation ==
    /\ InCompressLoop /\ policy = "PFrameWithMotion" /\ adaptation
    /\ CompressIteration(PFrameModelWithMotion_compress_with_adaptation_body(
            out, prev_recon, video, i, keyframe_interval, iframe_task_name))

\* return out
CompressReturn ==
    /\ phase = "compress" /\ i = Len(video)
    /\ phase' = "compress_returned"
    /\ UNCHANGED <<i, err, config_vars, compress_vars, decompress_vars, load_vars, aux_vars>>

\* model.decompress(x): the statements before the loop
EnterDecompress(x, is_own) ==
    /\ inputs' = x
    /\ own' = is_own
    /\ phase' = "decompress"
    /\ i' = 0
    /\ prev_feat' = PyNone
    /\ reconstructed_video' = <<>>
    /\ result' = PyNone
    /\ dpath' = <<>>
    /\ UNCHANGED <<err, config_vars, compress_vars, load_vars, aux_vars>>

\* the caller passes on what compress returned for the "vc" task
CallDecompressOwn ==
    /\ phase = "compress_returned"
    /\ EnterDecompress(out["vc"], TRUE)

\* the caller passes a bitstream sequence of its own
CallDecompressGiven ==
    /\ phase = "idle"
    /\ \E x \in GivenInputs : EnterDecompress(x, FALSE)

\* the sequences of a further call: records holding a content and a motion
\* record, both well formed
AgainInputs == SeqsUpTo({PyList(<<FlatRecord, FlatRecord>>)}, MaxFrames)

\* the caller makes another decompress call on the same instance, whatever
\* the call before it decoded and however it ended
CallDecompressAgain ==
    /\ phase \in {"decompress_returned", "decompress_raised"}
    /\ ~own
    /\ \E x \in AgainInputs : EnterDecompress(x, FALSE)

\* the body's outcome written back: the next iteration, or the exception
DecompressIteration_Swallow(d) ==
    /\ dpath' = Append(dpath, [idx |-> i, path |-> d.path, ok |-> ~IsExc(d.recon),
                             ref |-> prev_feat])
    /\ IF IsExc(d.recon)
       THEN UNCHANGED <<prev_feat, reconstructed_video>>
       ELSE /\ prev_feat' = CarryFeat(policy, prev_feat, d.recon)
            /\ reconstructed_video' = Append(reconstructed_video, d.recon)
    /\ i' = i + 1
    /\ UNCHANGED <<phase, err, inputs, own, result, config_vars, compress_vars, load_vars, aux_vars>>
DecompressIteration(d) ==
    /\ dpath' = Append(dpath, [idx |-> i, path |-> d.path, ok |-> ~IsExc(d.recon),
                             ref |-> prev_feat])
    /\ IF IsExc(d.recon)
       THEN /\ phase' = "decompress_raised"
            /\ err' = d.recon.tag
            /\ UNCHANGED <<prev_feat, reconstructed_video, i>>
       ELSE /\ prev_feat' = CarryFeat(policy, prev_feat, d.recon)
            /\ reconstructed_video' = Append(reconstructed_video, d.recon)
            /\ i' = i + 1
            /\ UNCHANGED <<phase, err>>
    /\ UNCHANGED <<inputs, own, result, config_vars, compress_vars, load_vars, aux_vars>>

InDecompressLoop == phase = "decompress" /\ i < Len(inputs)

IFrameModel_decompress ==
    /\ InDecompressLoop /\ policy = "IFrame"
    /\ DecompressIteration(IFrameModel_decompress_body(inputs[i + 1]))

PFrameModel_decompress ==
    /\ InDecompressLoop /\ policy = "PFrame"
    /\ DecompressIteration(PFrameModel_decompress_body(
            inputs[i + 1], prev_feat, i, keyframe_interval))

PFrameModelWithMotion_decompress ==
    /\ InDecompressLoop /\ policy = "PFrameWithMotion"
    /\ DecompressIteration(PFrameModelWithMotion_decompress_body(
            inputs[i + 1], prev_feat, i, keyframe_interval))

\* torch.stack(reconstructed_video, dim=1): an empty list cannot be stacked
TorchStack(frames) ==
    IF Len(frames) = 0 THEN Exc("RuntimeError") ELSE PyVal("tensor", 0, frames)

\* return torch.stack(reconstructed_video, dim=1)
DecompressReturn ==
    /\ phase = "decompress" /\ i = Len(inputs)
    /\ LET stacked == TorchStack(reconstructed_video)
       IN  IF IsExc(stacked)
           THEN phase' = "decompress_raised" /\ err' = stacked.tag /\ UNCHANGED result
           ELSE phase' = "decompress_returned" /\ result' = stacked /\ UNCHANGED err
    /\ UNCHANGED <<i, inputs, own, prev_feat, reconstructed_video, dpath,
                   config_vars, compress_vars, load_vars, aux_vars>>

NextCodec ==
    \/ CallCompress
    \/ IFrameModel_compress
    \/ PFrameModel_compress_no_adaptation
    \/ PFrameModel_compress_with_adaptation
    \/ PFrameModelWithMotion_compress_no_adaptation
    \/ PFrameModelWithMotion_compress_with_adaptation
    \/ CompressReturn
    \/ CallDecompressOwn
    \/ CallDecompressGiven
    \/ CallDecompressAgain
    \/ IFrameModel_decompress
    \/ PFrameModel_decompress
    \/ PFrameModelWithMotion_decompress
    \/ DecompressReturn

SpecCodec == InitCodec /\ [][NextCodec]_vars

\* a call of load_model(json_file): its argument, the statement it is at,
\* model_data, the instance under assembly with the instance before
\* load_state_dict, and what the call has done so far
NewCall(path) ==
    [path |-> path, pc |-> "open", desc |-> Unread, model |-> <<>>, pre |-> <<>>,
     done |-> {}]

Top == stack[Len(stack)]
SetTop(f) == [stack EXCEPT ![Len(stack)] = f]
Running == load_phase = "running" /\ Len(stack) >= 1

CodecIdle ==
    /\ policy = "IFrame"
    /\ keyframe_interval = 1
    /\ adaptation = FALSE
    /\ task_name = <<"vc">>
    /\ iframe_task_name = <<"vc">>
    /\ phase = "idle"
    /\ video = <<>>
    /\ i = 0
    /\ out = EmptyOut(<<"vc">>)
    /\ prev_recon = PyNone
    /\ inputs = <<>>
    /\ own = FALSE
    /\ prev_feat = PyNone
    /\ reconstructed_video = <<>>
    /\ result = PyNone
    /\ err = "none"
    /\ cpath = <<>>
    /\ dpath = <<>>
    /\ enc_recon = <<>>

InitLoad ==
    /\ CodecIdle
    /\ files = [p \in Paths |-> Unread]
    /\ \E p \in Paths : stack = <<NewCall(p)>>
    /\ load_phase = "running"
    /\ loaded = <<>>
    /\ load_err = NoError
    /\ UpdateIdle
    /\ MetricsIdle

\* an exception leaves every running call
Raise(kind) ==
    /\ load_phase' = "raised"
    /\ load_err' = [kind |-> kind, at |-> Top.pc, depth |-> Len(stack), done |-> Top.done]
    /\ UNCHANGED <<files, stack, loaded, codec_vars, aux_vars>>

Goto(f) ==
    /\ stack' = SetTop(f)
    /\ UNCHANGED <<files, load_phase, loaded, load_err, codec_vars, aux_vars>>

\* lines 25-29: read model.json, model_type = model_data["model_type"]
load_model_open ==
    /\ Running /\ Top.pc = "open"
    /\ \E d \in Descriptions :
          /\ files[Top.path] \in {Unread, d}
          /\ files' = [files EXCEPT ![Top.path] = d]
          /\ stack' = SetTop([Top EXCEPT !.desc = d, !.pc = "check_keys"])
    /\ UNCHANGED <<load_phase, loaded, load_err, codec_vars, aux_vars>>

\* lines 30-36: the arch_args a PFrame type needs
load_model_check_keys ==
    /\ Running /\ Top.pc = "check_keys"
    /\ IF StartsWithPFrame(Top.desc.model_type) /\ ~(CheckedKeys \subseteq Top.desc.arch_args)
       THEN Raise("KeyError")
       ELSE Goto([Top EXCEPT !.pc = "resolve"])

\* lines 37-41: the encoder class, the decoders, weighting, architecture
load_model_resolve ==
    /\ Running /\ Top.pc = "resolve"
    /\ Goto([Top EXCEPT !.pc = "construct", !.done = @ \cup {"encoder_class", "decoders"}])

\* lines 257-273, and __init__ up to the nested load_model (lines 104-109)
load_model_construct_NoNested ==
    /\ Running /\ Top.pc = "construct"
    /\ LET t == Top.desc.model_type
           built == [Top EXCEPT !.model = <<NewLayer(t)>>, !.done = @ \cup {"instance"}]
       IN  IF t = "IFrame"
           THEN Goto([built EXCEPT !.pc = "load_state_dict"])
           ELSE IF t \in {"PFrame", "PFrameWithMotion"}
           THEN Goto([built EXCEPT !.pc = "init_rest"])
           ELSE Raise("ValueError")
load_model_construct ==
    /\ Running /\ Top.pc = "construct"
    /\ LET t == Top.desc.model_type
           built == [Top EXCEPT !.model = <<NewLayer(t)>>, !.done = @ \cup {"instance"}]
       IN  IF t = "IFrame"
           THEN Goto([built EXCEPT !.pc = "load_state_dict"])
           ELSE IF t \in {"PFrame", "PFrameWithMotion"}
           THEN IF "iframe_model_path" \notin Top.desc.arch_args
                THEN Raise("KeyError")
                ELSE IF Len(stack) >= RecursionLimit
                THEN Raise("RecursionError")
                ELSE /\ stack' = Append(SetTop([built EXCEPT !.pc = "init_rest"]),
                                        NewCall(Top.desc.iframe_model_path))
                     /\ UNCHANGED <<files, load_phase, loaded, load_err, codec_vars, aux_vars>>
           ELSE Raise("ValueError")

\* __init__ after the nested load_model returned (lines 110-111), .to(device)
load_model_init_rest ==
    /\ Running /\ Top.pc = "init_rest"
    /\ IF {"keyframe_interval", "adaptation"} \subseteq Top.desc.arch_args
       THEN Goto([Top EXCEPT !.pc = "load_state_dict"])
       ELSE Raise("KeyError")

\* lines 275-276: torch.load, load_state_dict(strict=strict)
load_model_load_state_dict ==
    /\ Running /\ Top.pc = "load_state_dict"
    /\ \E ckpt \in Checkpoints :
          LET read == [Top EXCEPT !.desc.checkpoint = ckpt]
          IN  IF Strict(Top.desc.model_type)
                 /\ (MissingKeys(Top.model, ckpt) \/ UnexpectedKeys(Top.model, ckpt))
              THEN /\ load_phase' = "raised"
                   /\ load_err' = [kind |-> "RuntimeError", at |-> Top.pc,
                                   depth |-> Len(stack), done |-> Top.done]
                   /\ stack' = SetTop(read)
                   /\ UNCHANGED <<files, loaded, codec_vars, aux_vars>>
              ELSE Goto([read EXCEPT !.pc = "update",
                                    !.pre = Top.model,
                                    !.model = LoadStateDict(Top.model, ckpt, Top.path),
                                    !.done = @ \cup {"checkpoint"}])

\* lines 277-278: model.eval(); model.update(force=True)
load_model_update ==
    /\ Running /\ Top.pc = "update"
    /\ Goto([Top EXCEPT !.pc = "return", !.model = BaseModel_update(Top.model),
                        !.done = @ \cup {"update"}])

\* line 280: return model, to the caller or into self.iframe_model
load_model_return ==
    /\ Running /\ Top.pc = "return"
    /\ IF Len(stack) = 1
       THEN /\ loaded' = Top.model
            /\ load_phase' = "returned"
            /\ stack' = <<>>
       ELSE /\ stack' = [SubSeq(stack, 1, Len(stack) - 1) EXCEPT
                            ![Len(stack) - 1].model = @ \o Top.model]
            /\ UNCHANGED <<loaded, load_phase>>
    /\ UNCHANGED <<files, load_err, codec_vars, aux_vars>>

NextLoad ==
    \/ load_model_open
    \/ load_model_check_keys
    \/ load_model_resolve
    \/ load_model_construct
    \/ load_model_init_rest
    \/ load_model_load_state_dict
    \/ load_model_update
    \/ load_model_return

SpecLoad == InitLoad /\ [][NextLoad]_vars

\* the interpreter runs the call on: a statement that can run does run
SpecLoadFair == SpecLoad /\ WF_vars(NextLoad)

\* ------------------------- loader/model_loader.py: BaseModel.update by module
MaxModules == 3
MaxUpdateCalls == 2

\* get_scale_table(): the default table; 2 stands for a table of the caller's
get_scale_table == 1
ScaleTables == {get_scale_table, 2}

\* scale_table=None
NoScaleTable == 0

\* what named_modules() yields: entropy modules of the two classes update
\* looks for, and modules of any other class; table is the scale table the
\* module's coding tables were built from, 0 while they are empty
ModuleStates ==
    [kind : {"EntropyBottleneck"}, table : {0, get_scale_table}]
    \cup [kind : {"GaussianConditional"}, table : {0} \cup ScaleTables]
    \cup [kind : {"Conv2d"}, table : {0}]

IsEntropyModule(m) == m.kind \in {"EntropyBottleneck", "GaussianConditional"}

\* EntropyBottleneck.update(force, update_quantiles): builds the tables
\* unless they exist and the call is not forced; returns whether it did
EntropyBottleneck_update(m, force) ==
    IF ~force /\ m.table # 0
    THEN [module |-> m, changed |-> FALSE]
    ELSE [module |-> [m EXCEPT !.table = get_scale_table], changed |-> TRUE]

\* GaussianConditional.update_scale_table(scale_table, force): builds the
\* tables unless they match scale_table and the call is not forced
GaussianConditional_update_scale_table(m, scale_table, force) ==
    IF ~force /\ m.table = scale_table
    THEN [module |-> m, changed |-> FALSE]
    ELSE [module |-> [m EXCEPT !.table = scale_table], changed |-> TRUE]

\* the loop body of BaseModel.update for one module: the two isinstance
\* tests, updated |= ...
UpdateModule_ShortCircuit(updated, m, scale_table, force) ==
    IF updated \/ ~IsEntropyModule(m)
    THEN [module |-> m, changed |-> FALSE, visited |-> FALSE]
    ELSE IF m.kind = "EntropyBottleneck"
    THEN [module |-> EntropyBottleneck_update(m, force).module,
          changed |-> EntropyBottleneck_update(m, force).changed, visited |-> TRUE]
    ELSE [module |-> GaussianConditional_update_scale_table(m, scale_table, force).module,
          changed |-> GaussianConditional_update_scale_table(m, scale_table, force).changed,
          visited |-> TRUE]
UpdateModule(updated, m, scale_table, force) ==
    IF m.kind = "EntropyBottleneck"
    THEN [module |-> EntropyBottleneck_update(m, force).module,
          changed |-> EntropyBottleneck_update(m, force).changed, visited |-> TRUE]
    ELSE IF m.kind = "GaussianConditional"
    THEN [module |-> GaussianConditional_update_scale_table(m, scale_table, force).module,
          changed |-> GaussianConditional_update_scale_table(m, scale_table, force).changed,
          visited |-> TRUE]
    ELSE [module |-> m, changed |-> FALSE, visited |-> FALSE]

\* for _, module in self.named_modules(): from module n on
RECURSIVE BaseModel_update_loop(_, _, _, _)
BaseModel_update_loop(acc, n, scale_table, force) ==
    IF n > Len(acc.modules) THEN acc
    ELSE LET r == UpdateModule(acc.updated, acc.modules[n], scale_table, force)
         IN  BaseModel_update_loop(
                [modules |-> [acc.modules EXCEPT ![n] = r.module],
                 updated |-> acc.updated \/ r.changed,
                 visited |-> IF r.visited THEN Append(acc.visited, n) ELSE acc.visited,
                 results |-> IF r.visited THEN Append(acc.results, r.changed) ELSE acc.results],
                n + 1, scale_table, force)

\* BaseModel.update(scale_table, force): the modules after the call, the
\* flag returned, the entropy modules visited and what each returned
BaseModel_update_call(mods, scale_table, force) ==
    BaseModel_update_loop(
        [modules |-> mods, updated |-> FALSE, visited |-> <<>>, results |-> <<>>],
        1,
        IF scale_table = NoScaleTable THEN get_scale_table ELSE scale_table,
        force)

\* an instance as constructed, trained or loaded; no call made yet
InitUpdate ==
    /\ CodecIdle
    /\ LoadIdle
    /\ MetricsIdle
    /\ modules \in SeqsUpTo(ModuleStates, MaxModules)
    /\ update_calls = <<>>

\* one call model.update(scale_table, force=force)
UpdateCall(scale_table, force) ==
    /\ Len(update_calls) < MaxUpdateCalls
    /\ LET r == BaseModel_update_call(modules, scale_table, force)
       IN  /\ modules' = r.modules
           /\ update_calls' = Append(update_calls,
                  [scale_table |-> scale_table, force |-> force, before |-> modules,
                   visited |-> r.visited, results |-> r.results, returned |-> r.updated])
    /\ UNCHANGED <<codec_vars, load_vars, metric_vars>>

BaseModel_update_unforced == \E t \in {NoScaleTable} \cup ScaleTables : UpdateCall(t, FALSE)
BaseModel_update_forced == \E t \in {NoScaleTable} \cup ScaleTables : UpdateCall(t, TRUE)

NextUpdate ==
    \/ BaseModel_update_unforced
    \/ BaseModel_update_forced

SpecUpdate == InitUpdate /\ [][NextUpdate]_vars

\* ------------------------------- metrics.py and the decoders' forward
MaxBits == 1
MaxSide == 2
MaxMetricCalls == 2

\* a bit cost: a scalar tensor
BitCosts == {Tensor(n) : n \in 0..MaxBits}

\* a reconstructed frame batch of shape (B, 3, H, W); items is the shape
Recon(B, H, W) == PyVal("tensor", 0, <<PyInt(B), PyInt(3), PyInt(H), PyInt(W)>>)
Recons == {Recon(B, H, W) : B \in 1..MaxSide, H \in 1..MaxSide, W \in 1..MaxSide}

\* ICDecoder.forward: return reconstructed_frame, [prior_bits, hyperprior_bits]
ICDecoder_forward(reconstructed_frame, prior_bits, hyperprior_bits) ==
    PyTuple(<<reconstructed_frame, PyList(<<prior_bits, hyperprior_bits>>)>>)

\* VCResidualDecoder.forward: return recon_frame, [prior_bits, hyperprior_bits]
VCResidualDecoder_forward(recon_frame, prior_bits, hyperprior_bits) ==
    PyTuple(<<recon_frame, PyList(<<prior_bits, hyperprior_bits>>)>>)

\* VCMotionResidualDecoder.forward:
\*   return recon_frame, [res_p_bits, res_hp_bits, mv_p_bits, mv_hp_bits]
VCMotionResidualDecoder_forward(recon_frame, res_p_bits, res_hp_bits, mv_p_bits, mv_hp_bits) ==
    PyTuple(<<recon_frame, PyList(<<res_p_bits, res_hp_bits, mv_p_bits, mv_hp_bits>>)>>)

\* the predictions of the compression task: what the three decoders'
\* forward return, and the flat triple the metric's unpacking is written for
DecoderPreds ==
    {ICDecoder_forward(r, p, h) : r \in Recons, p \in BitCosts, h \in BitCosts}
    \cup {VCResidualDecoder_forward(r, p, h) : r \in Recons, p \in BitCosts, h \in BitCosts}
    \cup {VCMotionResidualDecoder_forward(r, a, b, c, d) :
             r \in Recons, a \in BitCosts, b \in BitCosts, c \in BitCosts, d \in BitCosts}
FlatPreds == {PyTuple(<<r, p, h>>) : r \in Recons, p \in BitCosts, h \in BitCosts}

\* a quotient of tensors, kept exact
Quotient(bits, pixels) == [bits |-> bits, pixels |-> pixels]

\* reconstruction, prior_bits, hyperprior_bits = pred
\* B, _, H, W = reconstruction.shape; num_pixels = B * H * W
\* (prior_bits + hyperprior_bits) / num_pixels
BitsPerPixel(pred) ==
    IF ~IsSeqVal(pred) THEN Exc("TypeError")
    ELSE IF Len(pred.items) # 3 THEN Exc("ValueError")
    ELSE LET reconstruction == pred.items[1]
             prior_bits == pred.items[2]
             hyperprior_bits == pred.items[3]
         IN  IF reconstruction.tag # "tensor" THEN Exc("AttributeError")
             ELSE IF Len(reconstruction.items) # 4 THEN Exc("ValueError")
             ELSE IF prior_bits.tag # "tensor" \/ hyperprior_bits.tag # "tensor"
             THEN Exc("TypeError")
             ELSE LET B == reconstruction.items[1].val
                      H == reconstruction.items[3].val
                      W == reconstruction.items[4].val
                      num_pixels == B * H * W
                  IN  PyVal("quotient", 0,
                            <<Quotient(prior_bits.val + hyperprior_bits.val, num_pixels)>>)

\* CompressionTaskMetrics.update_fun(pred, gt): the bpp it appends
CompressionTaskMetrics_update_fun(pred) == BitsPerPixel(pred)

\* RateDistortionLoss.compute_loss(pred, gt): its rate term bpp_loss
RateDistortionLoss_compute_loss(pred) == BitsPerPixel(pred)

InitMetrics ==
    /\ CodecIdle
    /\ LoadIdle
    /\ UpdateIdle
    /\ MetricsIdle

\* one call of fn on pred: the value is recorded, or the exception leaves
\* the records as they were
MetricCall(fn, pred, value, record) ==
    /\ Len(metric_calls) < MaxMetricCalls
    /\ metric_calls' = Append(metric_calls,
          [fn |-> fn, pred |-> pred,
           raised |-> IF IsExc(value) THEN value.tag ELSE "none",
           at |-> Len(record) + 1])

\* meter.update: CompressionTaskMetrics.update_fun(pred, gt)
Call_update_fun ==
    \E pred \in DecoderPreds \cup FlatPreds :
        LET bpp == CompressionTaskMetrics_update_fun(pred)
        IN  /\ MetricCall("update_fun", pred, bpp, bpp_record)
            /\ bpp_record' = IF IsExc(bpp) THEN bpp_record ELSE Append(bpp_record, bpp.items[1])
            /\ UNCHANGED <<loss_record, codec_vars, load_vars, update_vars>>

\* RateDistortionLoss._update_loss: compute_loss(pred, gt), self.record.append
Call_compute_loss ==
    \E pred \in DecoderPreds \cup FlatPreds :
        LET loss == RateDistortionLoss_compute_loss(pred)
        IN  /\ MetricCall("compute_loss", pred, loss, loss_record)
            /\ loss_record' = IF IsExc(loss) THEN loss_record ELSE Append(loss_record, loss.items[1])
            /\ UNCHANGED <<bpp_record, codec_vars, load_vars, update_vars>>

NextMetrics ==
    \/ Call_update_fun
    \/ Call_compute_loss

SpecMetrics == InitMetrics /\ [][NextMetrics]_vars

\* ------------------------------------------------------------ claims: codec
Predictive == policy \in {"PFrame", "PFrameWithMotion"}

\* C1: in compress (either adaptation mode) and decompress of both predictive
\* policies, every frame index handled takes the keyframe path exactly when
\* index mod keyframe_interval = 0; frame 0 is a keyframe, and with
\* keyframe_interval = 1 the predicted path never runs.
C1_KeyframeSelection ==
    Predictive =>
        /\ \A n \in 1..Len(cpath) :
              /\ cpath[n].idx = n - 1
              /\ (cpath[n].path = "key") <=> (cpath[n].idx % keyframe_interval = 0)
              /\ cpath[n].path \in {"key", "pred"}
        /\ \A n \in 1..Len(dpath) :
              /\ dpath[n].idx = n - 1
              /\ (dpath[n].path = "key") <=> (dpath[n].idx % keyframe_interval = 0)
              /\ dpath[n].path \in {"key", "pred"}
        /\ Len(cpath) >= 1 => cpath[1].path = "key"
        /\ Len(dpath) >= 1 => dpath[1].path = "key"
        /\ keyframe_interval = 1 =>
              /\ \A n \in 1..Len(cpath) : cpath[n].path = "key"
              /\ \A n \in 1..Len(dpath) : dpath[n].path = "key"

C1_Witness ==
    /\ policy = "PFrameWithMotion" /\ keyframe_interval = 2
    /\ phase = "decompress_returned"
    /\ Len(dpath) = 3
    /\ dpath[2].path = "pred" /\ dpath[3].path = "key"

\* C2: under adaptation, for every frame followed by a predicted frame the
\* encoder carries a reconstruction of it after coding it, and that
\* reconstruction is the one decompress produces for the same frame.
C2_DriftFree ==
    (Predictive /\ adaptation /\ phase \notin {"idle", "compress"}) =>
        \A n \in 1..(Len(video) - 1) :
            (n % keyframe_interval # 0) =>
                /\ Len(enc_recon) >= n
                /\ enc_recon[n].tag = "tensor"
                /\ (own /\ Len(reconstructed_video) >= n) =>
                        reconstructed_video[n] = enc_recon[n]

\* C3: every frame PFrameModelWithMotion.compress has handled has a "vc"
\* record of two elements (content, motion), the motion element being the
\* empty sentinel exactly at keyframe indices.
C3_ArityUniform ==
    policy = "PFrameWithMotion" =>
        \A n \in 1..Len(cpath) :
            /\ Len(out["vc"]) >= n
            /\ IsSeqVal(out["vc"][n])
            /\ Len(out["vc"][n].items) = 2
            /\ (out["vc"][n].items[2] = EmptyMotion) <=> ((n - 1) % keyframe_interval = 0)

\* C4: decompress of a predictive policy, handed the "vc" sequence its own
\* compress returned for a video of at least one frame, raises nothing.
C4_DecompressAcceptsCompressOutput ==
    (Predictive /\ own /\ Len(video) >= 1) => phase # "decompress_raised"

\* the reconstruction of one independently coded frame
IFrameRecon(x) == Tensor(HeadNet(Dequantize(Quantize(FeatNet(x.val)))))

\* C5: for the Independent policy and a video of N >= 1 frames, decompress of
\* compress's "vc" sequence raises nothing and returns N frames, frame n
\* being the reconstruction of input frame n.
C5_IFrameRoundTrip ==
    (policy = "IFrame" /\ own /\ Len(video) >= 1) =>
        /\ phase # "decompress_raised"
        /\ Len(inputs) = Len(video)
        /\ \A n \in 1..Len(reconstructed_video) :
              reconstructed_video[n] = IFrameRecon(video[n])
        /\ phase = "decompress_returned" =>
              /\ result.tag = "tensor"
              /\ Len(result.items) = Len(video)
              /\ \A n \in 1..Len(video) : result.items[n] = IFrameRecon(video[n])

C5_Witness ==
    /\ policy = "IFrame" /\ own /\ phase = "decompress_returned"
    /\ Len(video) >= 2
    /\ result.items[1] # result.items[2]

\* C6: what compress returns maps every task of the model to a sequence of
\* exactly one record per input frame.
C6_OneRecordPerFrame ==
    phase = "compress_returned" =>
        \A t \in Range(task_name) : t \in DOMAIN out /\ Len(out[t]) = Len(video)

\* C8: a decode failure at frame index k ends the decompress call: k is the
\* last index decoded, it was decoded once, and nothing is returned.
C8_DecodeFailurePropagates ==
    \A n \in 1..Len(dpath) :
        /\ dpath[n].idx = n - 1
        /\ ~dpath[n].ok =>
              /\ n = Len(dpath)
              /\ phase = "decompress_raised"
              /\ err # "none"
              /\ result = PyNone
              /\ i = n - 1
              /\ Len(reconstructed_video) = n - 1

C8_Witness ==
    /\ phase = "decompress_raised" /\ err = "DecodeError"
    /\ policy = "PFrameWithMotion"
    /\ Len(inputs) = 3 /\ Len(dpath) = 2
    /\ dpath[2].path = "pred" /\ ~dpath[2].ok

\* ------------------------------------------------------- claims: load_model
PredictiveType(t) == t \in {"PFrame", "PFrameWithMotion"}
LacksArchKey(d) == PredictiveType(d.model_type) /\ ~(ArchKeys \subseteq d.arch_args)

\* C7: a load_model call whose description is of a predictive type and lacks
\* iframe_model_path, keyframe_interval or adaptation raises KeyError at the
\* key check: it has resolved no encoder class, built no decoder and no
\* instance, read no checkpoint, made no nested call, and no instance is
\* ever returned to the caller.
C7_ConfigErrorAtAssembly ==
    /\ \A n \in 1..Len(stack) :
          LacksArchKey(stack[n].desc) =>
              /\ n = Len(stack)
              /\ stack[n].pc = "check_keys"
              /\ stack[n].done = {}
              /\ stack[n].model = <<>>
              /\ load_phase = "raised" =>
                    /\ load_err.kind = "KeyError"
                    /\ load_err.at = "check_keys"
                    /\ load_err.depth = n
                    /\ load_err.done = {}
    /\ (\E p \in Paths : LacksArchKey(files[p])) => load_phase # "returned"

C7_Witness ==
    /\ load_phase = "raised" /\ load_err.kind = "KeyError"
    /\ Len(stack) = 1
    /\ stack[1].desc.model_type = "PFrame"
    /\ stack[1].desc.arch_args = ArchKeys \ {"adaptation"}

Calibrated(model) == \A n \in 1..Len(model) : model[n].calib = model[n].params

\* C9: an instance load_model returns, to the caller or into iframe_model,
\* has had update(force=True) applied after its last parameter load: the
\* tables of every entropy module in it, those of the embedded keyframe
\* model included, are the ones computed from its current parameters.
C9_CalibratedOnReturn ==
    /\ \A n \in 1..Len(stack) :
          stack[n].pc = "return" =>
              /\ "update" \in stack[n].done
              /\ Len(stack[n].model) >= 1
              /\ Calibrated(stack[n].model)
    /\ load_phase = "returned" => (Len(loaded) >= 1 /\ Calibrated(loaded))

C9_Witness ==
    /\ load_phase = "returned"
    /\ Len(loaded) = 2
    /\ loaded[2].mtype = "IFrame"
    /\ \A k \in ParamKeys : loaded[2].params[k] = loaded[1].params[k]
    /\ loaded[1].params["w"] # 0

ExactFor(t) ==
    IF t = "IFrame" THEN [own |-> ParamKeys, emb |-> {}, extra |-> FALSE]
    ELSE [own |-> ParamKeys, emb |-> ParamKeys, extra |-> FALSE]

\* C10: load_state_dict is strict exactly for the IFrame type.  Only an
\* IFrame call raises at the load, and it does whenever its checkpoint's keys
\* are not exactly the instance's; a PFrame or PFrameWithMotion call never
\* raises there: the keys the checkpoint holds are loaded, every other
\* parameter keeps the value it had (the initial one for the model's own
\* modules), and the call goes on to return.
C10_StrictOnlyForIFrame ==
    /\ load_err.kind = "RuntimeError" =>
          /\ load_err.at = "load_state_dict"
          /\ stack[load_err.depth].desc.model_type = "IFrame"
          /\ stack[load_err.depth].desc.checkpoint # ExactFor("IFrame")
    /\ \A n \in 1..Len(stack) :
          LET f == stack[n] IN
          "checkpoint" \in f.done =>
              /\ (load_phase = "raised" => load_err.depth # n)
              /\ f.desc.model_type = "IFrame" =>
                    /\ f.desc.checkpoint = ExactFor("IFrame")
                    /\ \A k \in ParamKeys : f.model[1].params[k] = f.path
              /\ PredictiveType(f.desc.model_type) =>
                    \A m \in 1..Len(f.model) : \A k \in ParamKeys :
                        f.model[m].params[k] =
                            IF k \in (IF m = 1 THEN f.desc.checkpoint.own
                                      ELSE f.desc.checkpoint.emb)
                            THEN f.path
                            ELSE IF m = 1 THEN 0 ELSE f.pre[m].params[k]

C10_Witness ==
    /\ Running /\ Top.pc = "return"
    /\ Top.desc.model_type = "PFrameWithMotion"
    /\ Top.desc.checkpoint.own = {"w"}
    /\ Top.model[1].params["w"] = Top.path
    /\ Top.model[1].params["b"] = 0

\* ------------------------------------------------------- claims: update
EntropyIndexes(mods) ==
    SelectSeq([n \in 1..Len(mods) |-> n], LAMBDA n : IsEntropyModule(mods[n]))
AnyTrue(bs) == \E n \in 1..Len(bs) : bs[n]
SameTable(c, d) ==
    (IF c.scale_table = NoScaleTable THEN get_scale_table ELSE c.scale_table)
    = (IF d.scale_table = NoScaleTable THEN get_scale_table ELSE d.scale_table)

\* C11: every update call visits every entropy module of the instance, in
\* order, and returns the OR of what the modules returned; of two calls in a
\* row with force=False and the same scale table, the first returns True if
\* an entropy module had no tables, and the second returns False.
C11_UpdateIdempotent ==
    \A n \in 1..Len(update_calls) :
        LET c == update_calls[n] IN
        /\ c.visited = EntropyIndexes(c.before)
        /\ Len(c.results) = Len(c.visited)
        /\ c.returned = AnyTrue(c.results)
        /\ (n > 1 /\ ~c.force /\ ~update_calls[n - 1].force /\ SameTable(c, update_calls[n - 1])) =>
              /\ ~c.returned
              /\ (\E k \in 1..Len(update_calls[n - 1].before) :
                      /\ IsEntropyModule(update_calls[n - 1].before[k])
                      /\ update_calls[n - 1].before[k].table = 0)
                  => update_calls[n - 1].returned

C11_Witness ==
    /\ Len(update_calls) = 2
    /\ ~update_calls[1].force /\ ~update_calls[2].force
    /\ update_calls[1].scale_table = update_calls[2].scale_table
    /\ update_calls[1].returned /\ ~update_calls[2].returned
    /\ update_calls[1].results = <<TRUE, FALSE, TRUE>>

\* ------------------------------------------------ claims: keyframe model
\* the instance a call holds once its __init__ has run to the end
Constructed(f) == f.pc \in {"load_state_dict", "update", "return"}

\* C12: a predictive instance whose construction completed, and every
\* predictive instance load_model returns, embeds as iframe_model exactly
\* one instance, of type IFrame, returned by the nested load_model call.
C12_OwnsIndependentKeyframeModel ==
    /\ \A n \in 1..Len(stack) :
          (PredictiveType(stack[n].desc.model_type) /\ Constructed(stack[n])) =>
              /\ Len(stack[n].model) = 2
              /\ stack[n].model[2].mtype = "IFrame"
    /\ (load_phase = "returned" /\ PredictiveType(loaded[1].mtype)) =>
              /\ Len(loaded) = 2
              /\ loaded[2].mtype = "IFrame"

\* ------------------------------------------------- claims: carried state
\* C13: in decompress of a predictive policy, the prev_feat a predicted
\* frame n decodes against is extract_feats of the reconstruction of frame
\* n - 1 made in the same call; it is never None.
C13_PrevFeatFromPreviousFrame ==
    Predictive =>
        \A n \in 1..Len(dpath) :
            dpath[n].path = "pred" =>
                /\ n >= 2
                /\ dpath[n].ref # PyNone
                /\ Len(reconstructed_video) >= n - 1
                /\ dpath[n].ref = extract_feats(reconstructed_video[n - 1])

C13_Witness ==
    /\ policy = "PFrameWithMotion" /\ keyframe_interval = 3
    /\ phase = "decompress_returned" /\ err = "DecodeError"
    /\ Len(dpath) = 3
    /\ dpath[2].path = "pred" /\ dpath[3].path = "pred"
    /\ dpath[3].ref # dpath[2].ref

\* what the two-frame raw window (a, b) alone determines: the "vc" record
\* and the "vsr" output of a predicted frame, per policy
WindowRep(a, b) ==
    IF policy = "PFrame" THEN ResidualEncoder_compress(<<a, b>>)
    ELSE MotionEncoder_compress(<<a, b>>)
WindowRecord(a, b) ==
    IF policy = "PFrame"
    THEN PyTuple(<<PyBytes(Quantize(FeatNet(b.val) - FeatNet(a.val))), PyBytes(0), PyInt(1)>>)
    ELSE VCResidualDecoder_compress(WindowRep(a, b).items[1])
WindowSR(a, b) == VSRResidualDecoder_forward(WindowRep(a, b).items[2])

\* C14: with adaptation off, compress of a predictive policy never holds a
\* reconstruction, and the records of a predicted frame n are those the raw
\* window (frame n - 1, frame n) alone determines.
C14_NoAdaptationUsesRawWindowOnly ==
    (Predictive /\ ~adaptation) =>
        /\ prev_recon = PyNone
        /\ \A n \in 1..Len(enc_recon) : enc_recon[n] = PyNone
        /\ \A n \in 1..Len(cpath) :
              (cpath[n].path = "pred" /\ cpath[n].ok) =>
                  /\ n >= 2
                  /\ Len(out["vc"]) >= n
                  /\ out["vc"][n] = WindowRecord(video[n - 1], video[n])
                  /\ (n = Len(cpath) /\ "vsr" \in DOMAIN out) =>
                        /\ Len(out["vsr"]) >= 1
                        /\ out["vsr"][Len(out["vsr"])] = WindowSR(video[n - 1], video[n])

C14_Witness ==
    /\ policy = "PFrame" /\ ~adaptation /\ keyframe_interval = 3
    /\ task_name = <<"vc", "vsr">>
    /\ phase = "compress_returned"
    /\ Len(video) = 3
    /\ video[1] # video[2] /\ video[2] # video[3]
    /\ cpath[3].path = "pred" /\ cpath[3].ok
    /\ out["vc"][2] # out["vc"][3]

\* ------------------------------------------------------- claims: metrics
\* the bit costs a prediction carries, and their sum
CostsOf(pred) ==
    IF pred.items[2].tag = "list" THEN pred.items[2].items
    ELSE SubSeq(pred.items, 2, Len(pred.items))
RECURSIVE SumCosts(_)
SumCosts(cs) == IF cs = <<>> THEN 0 ELSE Head(cs).val + SumCosts(Tail(cs))
PixelsOf(pred) ==
    pred.items[1].items[1].val * pred.items[1].items[3].val * pred.items[1].items[4].val

\* C15: every prediction of the compression task handed to the metric (or
\* to the loss) gets a bits-per-pixel entry: the sum of all the bit costs in
\* the prediction, the four of the motion decoder included, over B * H * W.
C15_RateAccounting ==
    \A n \in 1..Len(metric_calls) :
        LET c == metric_calls[n]
            record == IF c.fn = "update_fun" THEN bpp_record ELSE loss_record
        IN  /\ c.raised = "none"
            /\ Len(record) >= c.at
            /\ record[c.at] = Quotient(SumCosts(CostsOf(c.pred)), PixelsOf(c.pred))

\* ---------------------------------------------------- claims: termination
\* a description that makes load_model call itself on iframe_model_path
Recurses(d) == PredictiveType(d.model_type) /\ ArchKeys \subseteq d.arch_args

\* the chain of iframe_model_path references from p comes back to a path on it
RECURSIVE ChainCycles(_, _)
ChainCycles(p, seen) ==
    IF ~Recurses(files[p]) THEN FALSE
    ELSE IF files[p].iframe_model_path \in seen \cup {p} THEN TRUE
    ELSE ChainCycles(files[p].iframe_model_path, seen \cup {p})

CycleOnStack == \E a, b \in 1..Len(stack) : a < b /\ stack[a].path = stack[b].path
LoadEnded == load_phase \in {"returned", "raised"}

\* what holds of every state of a load_model call
C16_Safety ==
    /\ Len(stack) <= RecursionLimit
    /\ load_err.kind = "RecursionError" => CycleOnStack
    /\ CycleOnStack =>
          /\ load_phase # "returned"
          /\ \A n \in 1..Len(stack) : ~Constructed(stack[n])
          /\ load_phase = "raised" => load_err.kind = "RecursionError"
    /\ ~CycleOnStack => Len(stack) <= MaxPaths
    /\ load_phase = "returned" =>
          /\ \A p \in Paths : ~ChainCycles(p, {})
          /\ Len(loaded) - 1
                = Cardinality({n \in 1..Len(loaded) : PredictiveType(loaded[n].mtype)})

\* C16: load_model ends, by returning or raising; when it returns, the chain
\* of iframe_model_path references is acyclic and one nested call was made per
\* predictive model in it; once a path recurs on the call stack no
\* construction ever completes and the call ends in the recursion limit.
C16_LoadTerminates == [](C16_Safety) /\ <>(LoadEnded)

C16_Witness ==
    /\ load_phase = "returned"
    /\ Len(loaded) = 3
    /\ PredictiveType(loaded[1].mtype) /\ PredictiveType(loaded[2].mtype)
    /\ loaded[3].mtype = "IFrame"
=============================================================================
